---- MODULE Spec2Model ----
(***************************************************************************)
(* Model of the MCP connection-pool simulator (utils/mcpSimulation):       *)
(* MCPServerSimulator, a per-server state machine driven by timers, and    *)
(* MCPConnectionPoolManager, the keyed collection of simulators.           *)
(*                                                                         *)
(* JavaScript runs one handler at a time, so every action below is one     *)
(* whole handler: a call up to its first await, the continuation after an  *)
(* await, or one timer callback.  Math.random() draws become \E over the   *)
(* values the draw can produce; Date.now() is abstracted to "now".         *)
(***************************************************************************)
EXTENDS Integers, Sequences, FiniteSets, TLC

(***************************************************************************)
(* Bounds of the model                                                     *)
(***************************************************************************)
\* environment steps (calls and timer callbacks) in the single-simulator runs
MaxSteps == 3
\* connect() and testConnection() calls of one simulator suspended at their await
MaxInFlight == 2
\* environment steps in the runs that start from a simulator with a history
MaxWarmSteps == 3
\* environment steps in the pool-manager runs
MaxPoolSteps == 2
\* environment steps in the import/export runs
MaxImportSteps == 2

(***************************************************************************)
(* Program constants                                                       *)
(***************************************************************************)
\* "Keep only last 100 logs"
MaxLogs == 100
\* pool drift clamps
MaxActive == 10
MaxIdle == 5

(***************************************************************************)
(* Rationals for metrics.errorRate, as normalised <<numerator, denominator>>*)
(***************************************************************************)
RECURSIVE GCD(_, _)
GCD(a, b) == IF b = 0 THEN a ELSE GCD(b, a % b)

Rat(n, d) == IF n = 0 THEN <<0, 1>> ELSE LET g == GCD(n, d) IN <<n \div g, d \div g>>

RatAdd(a, b) == Rat(a[1] * b[2] + b[1] * a[2], a[2] * b[2])

RatSub(a, b) == Rat(a[1] * b[2] - b[1] * a[2], a[2] * b[2])

RatLeq(a, b) == a[1] * b[2] <= b[1] * a[2]

RatMin(a, b) == IF RatLeq(a, b) THEN a ELSE b

RatMax(a, b) == IF RatLeq(a, b) THEN b ELSE a

RatZero == <<0, 1>>

RatOne == <<1, 1>>

(***************************************************************************)
(* JSON values: [t |-> tag, v |-> payload].  An object's payload is a      *)
(* function from the keys it has to JSON values, an array's a sequence.    *)
(***************************************************************************)
JNull == [t |-> "null", v |-> {}]

JUndefined == [t |-> "undefined", v |-> {}]

JStr(s) == [t |-> "str", v |-> s]

JNum(n) == [t |-> "num", v |-> n]

JArr(items) == [t |-> "arr", v |-> items]

JObj(fields) == [t |-> "obj", v |-> fields]

\* JavaScript truthiness (the && chain and the if of importConfigurations)
Truthy(j) ==
  CASE j.t = "null" -> FALSE
    [] j.t = "undefined" -> FALSE
    [] j.t = "str" -> j.v # ""
    [] j.t = "num" -> j.v # 0
    [] OTHER -> TRUE

\* property access x.key throws a TypeError on null and undefined
GetThrows(j) == j.t \in {"null", "undefined"}

\* property access x.key where it does not throw: own keys of an object,
\* undefined for the keys used here on arrays, strings and numbers
Get(j, key) ==
  IF j.t = "obj" /\ key \in DOMAIN j.v THEN j.v[key] ELSE JUndefined

(***************************************************************************)
(* MCPServerSimulator                                                      *)
(***************************************************************************)
ZeroPool == [active |-> 0, idle |-> 0, total |-> 0]

\* The object the constructor builds.  onStatusUpdate is "user" (a callback
\* given by the caller), "manager" (the closure addServer passes) or "none".
\* The last eight are not fields of the class: delivered and notified record
\* the last snapshot the callback received and how often it was called,
\* appended how many log entries were ever appended (the entry's unique id),
\* connectsInFlight and testsInFlight the direct connect() and
\* testConnection() calls that are suspended at their await.  retiredLogs
\* and retiredPools are the arrays and objects that this.status.logs and
\* this.status.connectionPool pointed to before they were assigned anew, as
\* they were left; kept is a snapshot a caller of getStatus() still holds.
NewSimulator(serverId, serverConfig, onStatusUpdate) ==
  [ serverId |-> serverId,
    serverConfig |-> serverConfig,
    onStatusUpdate |-> onStatusUpdate,
    status |-> [ id |-> serverId,
                 status |-> "disconnected",
                 metrics |-> [ requestsPerSecond |-> 0,
                               errorRate |-> RatZero,
                               totalRequests |-> 0,
                               totalErrors |-> 0 ],
                 logs |-> <<>>,
                 connectionTime |-> "undefined",
                 lastHealthCheck |-> "undefined",
                 connectionPool |-> ZeroPool ],
    healthCheckInterval |-> 0,
    metricsInterval |-> 0,
    simulationIntervals |-> <<>>,
    delivered |-> <<>>,
    notified |-> 0,
    appended |-> 0,
    connectsInFlight |-> 0,
    testsInFlight |-> 0,
    retiredLogs |-> <<>>,
    retiredPools |-> <<>>,
    kept |-> <<>> ]

\* { ...this.status }: a shallow copy.  status, connectionTime and
\* lastHealthCheck are copied; metrics, logs and connectionPool are references
\* to the objects this.status points to.  The copy is modelled by what those
\* objects hold when it is made, and for logs and connectionPool by which
\* object it is (the metrics object is never replaced).
getStatus(s) ==
  [ id |-> s.status.id,
    status |-> s.status.status,
    metrics |-> s.status.metrics,
    logs |-> s.status.logs,
    connectionTime |-> s.status.connectionTime,
    lastHealthCheck |-> s.status.lastHealthCheck,
    connectionPool |-> s.status.connectionPool,
    logsRef |-> Len(s.retiredLogs) + 1,
    poolRef |-> Len(s.retiredPools) + 1 ]

\* what the array / object number ref of simulator s holds now
LogsOf(s, ref) ==
  IF ref = Len(s.retiredLogs) + 1 THEN s.status.logs ELSE s.retiredLogs[ref]

PoolOf(s, ref) ==
  IF ref = Len(s.retiredPools) + 1 THEN s.status.connectionPool ELSE s.retiredPools[ref]

\* a snapshot of simulator s as its holder reads it now, through the references
View(s, snapshot) ==
  [snapshot EXCEPT !.metrics = s.status.metrics,
                   !.logs = LogsOf(s, snapshot.logsRef),
                   !.connectionPool = PoolOf(s, snapshot.poolRef)]

notifyStatusUpdate(s) ==
  IF s.onStatusUpdate # "none"
  THEN [s EXCEPT !.delivered = <<getStatus(s)>>, !.notified = @ + 1]
  ELSE s

updateStatus(s, status) ==
  notifyStatusUpdate([s EXCEPT !.status.status = status])

\* the slice of addLog; KeepDropNewest is the slice taken from the wrong end
KeepDropNewest(logs) == IF Len(logs) > MaxLogs THEN Tail(logs) ELSE logs

KeepLast(logs) == IF Len(logs) > MaxLogs THEN SubSeq(logs, 1, MaxLogs) ELSE logs

\* unshift changes the array in place; past 100 entries this.status.logs is
\* assigned the new array slice returns and the old one is left as it is
addLog(s, level, message) ==
  LET log == [id |-> s.appended + 1, level |-> level, message |-> message]
      unshifted == <<log>> \o s.status.logs
  IN notifyStatusUpdate(
       [s EXCEPT !.status.logs = KeepLast(unshifted),
                 !.appended = @ + 1,
                 !.retiredLogs = IF Len(unshifted) > MaxLogs
                                 THEN Append(@, unshifted) ELSE @])

\* connect(), up to its await
connectCall(s) ==
  addLog(updateStatus(s, "connecting"), "info", "Attempting to connect")

\* the shouldFail branch without its updateStatus('error')
connectFailedNoStatus(s) ==
  addLog(s, "error", "Connection failed: Timeout after 3000ms")

\* connect(), the shouldFail branch after the delay
connectFailed(s) ==
  addLog(updateStatus(s, "error"), "error", "Connection failed: Timeout after 3000ms")

\* "Initialize connection pool": total is written right after the object
InitialPool(active, idle) == [active |-> active, idle |-> idle, total |-> active + idle]

startHealthChecks(s, h) == [s EXCEPT !.healthCheckInterval = h]

startMetricsSimulation(s, h) == [s EXCEPT !.metricsInterval = h]

\* logInterval is h, poolInterval is h + 1
startActivitySimulation(s, h) ==
  [s EXCEPT !.simulationIntervals = @ \o <<h, h + 1>>]

\* connect(), the success branch after the delay; h is the first free timer handle
connectSucceeded(s, active, idle, h) ==
  LET s1 == updateStatus(s, "connected")
      s2 == [s1 EXCEPT !.status.connectionTime = "now"]
      s3 == addLog(s2, "info", "Successfully connected")
      s4 == addLog(s3, "debug", "Endpoint")
      s5 == [s4 EXCEPT !.status.connectionPool = InitialPool(active, idle),
                       !.retiredPools = Append(@, s4.status.connectionPool)]
  IN startActivitySimulation(
       startMetricsSimulation(startHealthChecks(s5, h), h + 1), h + 2)

\* the interval timers the success branch of connect() creates for simulator i
StartedTimers(i, h) ==
  { [h |-> h, owner |-> i, kind |-> "health"],
    [h |-> h + 1, owner |-> i, kind |-> "metrics"],
    [h |-> h + 2, owner |-> i, kind |-> "log"],
    [h |-> h + 3, owner |-> i, kind |-> "pool"] }

Range(seq) == { seq[k] : k \in DOMAIN seq }

\* the handles stopAllIntervals passes to clearInterval
ClearedHandles(s) ==
  (IF s.healthCheckInterval # 0 THEN {s.healthCheckInterval} ELSE {})
    \cup (IF s.metricsInterval # 0 THEN {s.metricsInterval} ELSE {})
    \cup Range(s.simulationIntervals)

stopAllIntervals(s) ==
  [s EXCEPT !.healthCheckInterval = 0, !.metricsInterval = 0,
            !.simulationIntervals = <<>>]

\* disconnect() without the two assignments after updateStatus
disconnectKeepsPool(s) ==
  updateStatus(stopAllIntervals(addLog(s, "info", "Disconnecting")), "disconnected")

\* disconnect() that also drops the connect() calls waiting for their delay
disconnectCancelsPending(s) ==
  LET s1 == addLog(s, "info", "Disconnecting")
      s2 == stopAllIntervals(s1)
      s3 == updateStatus(s2, "disconnected")
  IN [s3 EXCEPT !.status.connectionTime = "undefined",
                !.status.connectionPool = ZeroPool,
                !.retiredPools = Append(@, s3.status.connectionPool),
                !.connectsInFlight = 0]

\* disconnect() that logs the end of the teardown as well as its start
disconnectLogsTwice(s) ==
  LET s1 == addLog(s, "info", "Disconnecting")
      s2 == stopAllIntervals(s1)
      s3 == addLog(updateStatus(s2, "disconnected"), "info", "Disconnected")
  IN [s3 EXCEPT !.status.connectionTime = "undefined",
                !.status.connectionPool = ZeroPool,
                !.retiredPools = Append(@, s3.status.connectionPool)]

disconnect(s) ==
  LET s1 == addLog(s, "info", "Disconnecting")
      s2 == stopAllIntervals(s1)
      s3 == updateStatus(s2, "disconnected")
  IN [s3 EXCEPT !.status.connectionTime = "undefined",
                !.status.connectionPool = ZeroPool,
                !.retiredPools = Append(@, s3.status.connectionPool)]

\* errorRate nudges of the health check
HealthFailRateNoClamp(e) == RatAdd(e, <<1, 10>>)

HealthFailRate(e) == RatMin(RatAdd(e, <<1, 10>>), RatOne)

HealthPassRate(e) == RatMax(RatSub(e, <<1, 100>>), RatZero)

\* a health check that reports its failure as the simulator's status
performHealthCheckMarksError(s, failed) ==
  LET s1 == [s EXCEPT !.status.lastHealthCheck = "now"]
  IN IF failed
     THEN updateStatus([addLog(s1, "warn", "Health check failed") EXCEPT
                          !.status.metrics.errorRate = HealthFailRate(@)], "error")
     ELSE notifyStatusUpdate([addLog(s1, "debug", "Health check passed") EXCEPT
                                !.status.metrics.errorRate = HealthPassRate(@)])

performHealthCheck(s, failed) ==
  LET s1 == [s EXCEPT !.status.lastHealthCheck = "now"]
      s2 == IF failed
            THEN [addLog(s1, "warn", "Health check failed") EXCEPT
                    !.status.metrics.errorRate = HealthFailRate(@)]
            ELSE [addLog(s1, "debug", "Health check passed") EXCEPT
                    !.status.metrics.errorRate = HealthPassRate(@)]
  IN notifyStatusUpdate(s2)

\* floor(currentRps): baseRps is in [2, 12), a burst triples it
RpsFloors == {2, 35}

ErrorRatio(m) ==
  IF m.totalRequests > 0 THEN Rat(m.totalErrors, m.totalRequests) ELSE RatZero

updateMetrics(s, rps, error) ==
  IF s.status.status # "connected" THEN s
  ELSE
    LET s1 == [s EXCEPT !.status.metrics.requestsPerSecond = rps,
                        !.status.metrics.totalRequests = @ + rps]
        s2 == IF error
              THEN addLog([s1 EXCEPT !.status.metrics.totalErrors = @ + 1],
                          "error", "Request failed: Internal server error")
              ELSE s1
        s3 == [s2 EXCEPT !.status.metrics.errorRate = ErrorRatio(s2.status.metrics)]
    IN notifyStatusUpdate(s3)

\* the five canned activities of startActivitySimulation
Activities ==
  << [level |-> "info", message |-> "Processing chat completion request"],
     [level |-> "debug", message |-> "Loading context from vector database"],
     [level |-> "info", message |-> "Retrieved 15 relevant documents"],
     [level |-> "debug", message |-> "Applying RAG processing pipeline"],
     [level |-> "info", message |-> "Response generated successfully"] >>

logActivity(s, fire, k) ==
  IF s.status.status = "connected" /\ fire
  THEN addLog(s, Activities[k].level, Activities[k].message)
  ELSE s

\* no clamp at all
ClampNothing(lo, hi, x) == x

Clamp(lo, hi, x) == IF x < lo THEN lo ELSE IF x > hi THEN hi ELSE x

DriftPoolStaleTotal(pool, change, idleChange) ==
  [pool EXCEPT !.active = Clamp(0, MaxActive, @ + change),
               !.idle = Clamp(0, MaxIdle, @ + idleChange)]

DriftPool(pool, change, idleChange) ==
  LET active == Clamp(0, MaxActive, pool.active + change)
      idle == Clamp(0, MaxIdle, pool.idle + idleChange)
  IN [active |-> active, idle |-> idle, total |-> active + idle]

poolDrift(s, change, idleChange) ==
  IF s.status.status = "connected"
  THEN notifyStatusUpdate(
         [s EXCEPT !.status.connectionPool = DriftPool(@, change, idleChange)])
  ELSE s

\* a test that shows itself as a connection attempt
testConnectionMarksConnecting(s) ==
  addLog(updateStatus(s, "connecting"), "info", "Testing connection...")

\* testConnection(), up to its await and after it
testConnectionCall(s) == addLog(s, "info", "Testing connection...")

testConnectionDone(s, success) ==
  IF success
  THEN addLog(s, "info", "Connection test successful")
  ELSE addLog(s, "error", "Connection test failed: Unable to reach endpoint")

(***************************************************************************)
(* State                                                                   *)
(***************************************************************************)
VARIABLES
  sims,        \* every MCPServerSimulator constructed so far, by instance number
  simulators,  \* the manager's Map, in insertion order: <<[key, sim]>>
  timers,      \* the interval timers that are set and not cleared
  nextHandle,  \* the handle the next setInterval returns
  agg,         \* the last connectAll()/disconnectAll() call and its members' promises
  global,      \* what the manager's onGlobalStatusUpdate received last, and how often
  result,      \* the last importConfigurations() call: its input and what it
               \* returned, or the error it threw
  last,        \* the handler that ran last, on which simulator, from which status
  budget,      \* environment steps (calls, timer callbacks) left
  store        \* the application store: its mcpServers list, and for each
               \* simulator how many connectMCPServer() calls await its connect()

vars == <<sims, simulators, timers, nextHandle, agg, global, result, last, budget, store>>

Inst == DOMAIN sims

NoAgg == [op |-> "none", members |-> <<>>, outcome |-> <<>>, state |-> "none"]

\* a string handed to JSON.parse: text that is no JSON, or the text of a document
NotJson == [ok |-> FALSE, doc |-> JNull]

Stringify(doc) == [ok |-> TRUE, doc |-> doc]

NoResult == [input |-> NotJson, success |-> 0, errors |-> <<>>, thrown |-> "none"]

NoGlobal == [count |-> 0, statuses |-> <<>>]

\* no application store around the manager
NoStore == [mcpServers |-> <<>>, awaiting |-> <<>>]

\* the connectMCPServer() calls suspended at `await simulator.connect()`
StoreAwaiting(i) == IF i \in DOMAIN store.awaiting THEN store.awaiting[i] ELSE 0

\* Array.from(this.simulators.values()).map(sim => sim.getStatus())
getAllStatuses(sm, ss) == [k \in DOMAIN sm |-> getStatus(ss[sm[k].sim])]

\* The manager's subscriber after a handler took simulator i from ss[i] to s:
\* each notification of a manager-owned simulator runs notifyGlobalUpdate(),
\* which reads every held simulator as it is at that moment.
notifyGlobalUpdate(g, sm, ss) ==
  [count |-> g.count + 1, statuses |-> getAllStatuses(sm, ss)]

GlobalAfter(g, sm, ss, i, s) ==
  IF s.onStatusUpdate = "manager" /\ s.notified > ss[i].notified
  THEN [count |-> g.count + (s.notified - ss[i].notified),
        statuses |-> [k \in DOMAIN sm |->
                        IF sm[k].sim = i THEN s.delivered[1]
                        ELSE getStatus(ss[sm[k].sim])]]
  ELSE g

\* one handler of simulator i ends with the simulator as s
SimStep(i, s, op) ==
  /\ sims' = [sims EXCEPT ![i] = s]
  /\ global' = GlobalAfter(global, simulators, sims, i, s)
  /\ last' = [op |-> op, sim |-> i, from |-> sims[i].status.status]

\* the member promises of the last aggregate call that have not settled
Waiting(a) == { m \in DOMAIN a.outcome : a.outcome[m] = "pending" }

InFlight(i) ==
  sims[i].connectsInFlight + sims[i].testsInFlight
    + (IF i \in Waiting(agg) THEN 1 ELSE 0) + StoreAwaiting(i)

Spend == budget > 0 /\ budget' = budget - 1

(***************************************************************************)
(* Simulator actions                                                       *)
(***************************************************************************)
Connect(i) ==
  /\ Spend
  /\ InFlight(i) < MaxInFlight
  /\ SimStep(i, [connectCall(sims[i]) EXCEPT !.connectsInFlight = @ + 1], "connect")
  /\ UNCHANGED <<simulators, timers, nextHandle, agg, result, store>>

\* <<Math.floor(Math.random() * 5) + 1, Math.floor(Math.random() * 3) + 1>>:
\* the smallest and the largest pool connect() can draw
PoolDraws == {<<1, 1>>, <<5, 3>>}

\* <<change, idleChange>> of the pool drift, each of -1, 0 and 1
DriftDraws == {<<-1, -1>>, <<0, 0>>, <<1, -1>>, <<1, 1>>}

\* Math.floor(Math.random() * activities.length) + 1: an info and a debug one
ActivityDraws == {1, 2}

\* the continuation of connect() for simulator i, with s the simulator once
\* the caller's bookkeeping (which promise this is) is done
ConnectContinue(i, s) ==
  \/ /\ SimStep(i, connectFailed(s), "connect-failed")
     /\ UNCHANGED <<timers, nextHandle>>
  \/ \E draw \in PoolDraws :
       /\ SimStep(i, connectSucceeded(s, draw[1], draw[2], nextHandle), "connect-ok")
       /\ timers' = timers \cup StartedTimers(i, nextHandle)
       /\ nextHandle' = nextHandle + 4

ConnectResume(i) ==
  /\ sims[i].connectsInFlight > 0
  /\ ConnectContinue(i, [sims[i] EXCEPT !.connectsInFlight = @ - 1])
  /\ UNCHANGED <<simulators, agg, result, budget, store>>

Disconnect(i) ==
  /\ Spend
  /\ SimStep(i, disconnect(sims[i]), "disconnect")
  /\ timers' = { t \in timers : t.h \notin ClearedHandles(sims[i]) }
  /\ UNCHANGED <<simulators, nextHandle, agg, result, store>>

TestConnection(i) ==
  /\ Spend
  /\ InFlight(i) < MaxInFlight
  /\ SimStep(i, [testConnectionCall(sims[i]) EXCEPT !.testsInFlight = @ + 1], "test")
  /\ UNCHANGED <<simulators, timers, nextHandle, agg, result, store>>

TestResume(i) ==
  /\ sims[i].testsInFlight > 0
  /\ \E success \in BOOLEAN :
       SimStep(i, testConnectionDone([sims[i] EXCEPT !.testsInFlight = @ - 1], success),
               IF success THEN "test-ok" ELSE "test-failed")
  /\ UNCHANGED <<simulators, timers, nextHandle, agg, result, budget, store>>

HealthTick(t) ==
  /\ t.kind = "health"
  /\ Spend
  /\ \E failed \in BOOLEAN : SimStep(t.owner, performHealthCheck(sims[t.owner], failed), "health")
  /\ UNCHANGED <<simulators, timers, nextHandle, agg, result, store>>

MetricsTick(t) ==
  /\ t.kind = "metrics"
  /\ Spend
  /\ \E rps \in RpsFloors, error \in BOOLEAN :
       SimStep(t.owner, updateMetrics(sims[t.owner], rps, error), "metrics")
  /\ UNCHANGED <<simulators, timers, nextHandle, agg, result, store>>

LogTick(t) ==
  /\ t.kind = "log"
  /\ Spend
  /\ \E fire \in BOOLEAN, k \in ActivityDraws :
       SimStep(t.owner, logActivity(sims[t.owner], fire, k), "log")
  /\ UNCHANGED <<simulators, timers, nextHandle, agg, result, store>>

PoolTick(t) ==
  /\ t.kind = "pool"
  /\ Spend
  /\ \E draw \in DriftDraws :
       SimStep(t.owner, poolDrift(sims[t.owner], draw[1], draw[2]), "pool")
  /\ UNCHANGED <<simulators, timers, nextHandle, agg, result, store>>

TimerTick == \E t \in timers : HealthTick(t) \/ MetricsTick(t) \/ LogTick(t) \/ PoolTick(t)

SimNext ==
  \/ \E i \in Inst : Connect(i)
  \/ \E i \in Inst : ConnectResume(i)
  \/ \E i \in Inst : Disconnect(i)
  \/ \E i \in Inst : TestConnection(i)
  \/ \E i \in Inst : TestResume(i)
  \/ TimerTick

(***************************************************************************)
(* MCPConnectionPoolManager                                                *)
(***************************************************************************)
Held(sm, key) == \E k \in DOMAIN sm : sm[k].key = key

\* this.simulators.get(key), 0 for undefined
MapGet(sm, key) ==
  IF Held(sm, key) THEN sm[CHOOSE k \in DOMAIN sm : sm[k].key = key].sim ELSE 0

\* this.simulators.set(key, sim): a held key keeps its place
MapSet(sm, key, sim) ==
  IF Held(sm, key)
  THEN [k \in DOMAIN sm |-> IF sm[k].key = key THEN [key |-> key, sim |-> sim] ELSE sm[k]]
  ELSE Append(sm, [key |-> key, sim |-> sim])

\* a delete that removes nothing
MapDeleteNothing(sm, key) == sm

\* this.simulators.delete(key)
MapDelete(sm, key) == SelectSeq(sm, LAMBDA e : e.key # key)

\* The manager and the simulators it built: w = [sims, simulators, global].
\* addServer constructs the simulator and stores it; it notifies nobody.
addServer(w, serverId, config) ==
  [w EXCEPT !.sims = Append(@, NewSimulator(serverId, config, "manager")),
            !.simulators = MapSet(@, serverId, Len(w.sims) + 1)]

\* one handler segment of simulator i, inside a manager call
CallOn(w, i, s) ==
  [w EXCEPT !.sims[i] = s,
            !.global = GlobalAfter(@, w.simulators, w.sims, i, s)]

World == [sims |-> sims, simulators |-> simulators, global |-> global]

SetWorld(w) ==
  /\ sims' = w.sims
  /\ simulators' = w.simulators
  /\ global' = w.global

AddServer(serverId, config) ==
  /\ Spend
  /\ SetWorld(addServer(World, serverId, config))
  /\ last' = [op |-> "addServer", sim |-> Len(sims) + 1, from |-> "disconnected"]
  /\ UNCHANGED <<timers, nextHandle, agg, result, store>>

\* removeServer with notifyGlobalUpdate() placed after the if
removeServerNotifiesAnyway(w, serverId) ==
  LET i == MapGet(w.simulators, serverId)
      w1 == IF i # 0
            THEN [CallOn(w, i, disconnect(w.sims[i])) EXCEPT
                    !.simulators = MapDelete(@, serverId)]
            ELSE w
  IN [w1 EXCEPT !.global = notifyGlobalUpdate(@, w1.simulators, w1.sims)]

\* removeServer(serverId): disconnect() has no await and runs to its end
\* inside the call
removeServer(w, serverId) ==
  LET i == MapGet(w.simulators, serverId)
  IN IF i # 0
     THEN LET w1 == CallOn(w, i, disconnect(w.sims[i]))
              w2 == [w1 EXCEPT !.simulators = MapDelete(@, serverId)]
          IN [w2 EXCEPT !.global = notifyGlobalUpdate(@, w2.simulators, w2.sims)]
     ELSE w

RemoveServer(serverId) ==
  /\ Spend
  /\ LET i == MapGet(simulators, serverId)
     IN /\ SetWorld(removeServer(World, serverId))
        /\ timers' = IF i # 0
                     THEN { t \in timers : t.h \notin ClearedHandles(sims[i]) }
                     ELSE timers
        /\ last' = [op |-> "removeServer", sim |-> i,
                    from |-> IF i # 0 THEN sims[i].status.status ELSE "undefined"]
  /\ UNCHANGED <<nextHandle, agg, result, store>>

\* Array.from(this.simulators.values())
Members(sm) == [k \in DOMAIN sm |-> sm[k].sim]

\* .map(sim => sim.connect()): every member's connect() runs to its await
\* before the map returns
StartedFirstOnly(members) == IF members = <<>> THEN <<>> ELSE <<members[1]>>

Started(members) == members

RECURSIVE connectEach(_, _)
connectEach(w, members) ==
  IF members = <<>> THEN w
  ELSE connectEach(CallOn(w, Head(members), connectCall(w.sims[Head(members)])),
                   Tail(members))

RECURSIVE disconnectEach(_, _)
disconnectEach(w, members) ==
  IF members = <<>> THEN w
  ELSE disconnectEach(CallOn(w, Head(members), disconnect(w.sims[Head(members)])),
                      Tail(members))

\* Promise.allSettled(promises) is settled once no member promise is pending
JoinReadyAny(a) == \E m \in DOMAIN a.outcome : a.outcome[m] # "pending"

JoinReady(a) == \A m \in DOMAIN a.outcome : a.outcome[m] # "pending"

ConnectAll ==
  /\ Spend
  /\ agg.state # "pending"
  /\ \A k \in DOMAIN simulators : InFlight(simulators[k].sim) < MaxInFlight
  /\ LET members == Members(simulators)
         w == connectEach(World, Started(members))
     IN /\ SetWorld(w)
        /\ agg' = [op |-> "connectAll", members |-> members,
                   outcome |-> [m \in Range(Started(members)) |-> "pending"],
                   state |-> "pending"]
  /\ last' = [op |-> "connectAll", sim |-> 0, from |-> "undefined"]
  /\ UNCHANGED <<timers, nextHandle, result, store>>

\* the continuation of the connect() that connectAll() started on simulator i
MemberResume(i) ==
  /\ agg.op = "connectAll"
  /\ i \in Waiting(agg)
  /\ ConnectContinue(i, sims[i])
  /\ agg' = [agg EXCEPT !.outcome[i] = "fulfilled"]
  /\ UNCHANGED <<simulators, result, budget, store>>

\* disconnect() has no await: every member promise is fulfilled when map returns
DisconnectAll ==
  /\ Spend
  /\ agg.state # "pending"
  /\ LET members == Members(simulators)
         w == disconnectEach(World, members)
     IN /\ SetWorld(w)
        /\ timers' = { t \in timers :
                         \A k \in DOMAIN members : t.h \notin ClearedHandles(sims[members[k]]) }
        /\ agg' = [op |-> "disconnectAll", members |-> members,
                   outcome |-> [m \in Range(members) |-> "fulfilled"],
                   state |-> "pending"]
  /\ last' = [op |-> "disconnectAll", sim |-> 0, from |-> "undefined"]
  /\ UNCHANGED <<nextHandle, result, store>>

\* await Promise.allSettled(promises) resumes and the aggregate call returns
Settle ==
  /\ agg.state = "pending"
  /\ JoinReady(agg)
  /\ agg' = [agg EXCEPT !.state = "fulfilled"]
  /\ last' = [op |-> "settled", sim |-> 0, from |-> "undefined"]
  /\ UNCHANGED <<sims, simulators, timers, nextHandle, global, result, budget, store>>

\* exportConfig(): the stored config with exportedAt and version added
exportConfig(s) ==
  Stringify(JObj([k \in DOMAIN s.serverConfig.v \cup {"exportedAt", "version"} |->
                    IF k = "exportedAt" THEN JStr("now")
                    ELSE IF k = "version" THEN JStr("1.0")
                    ELSE s.serverConfig.v[k]]))

\* a parser that yields null for text that is no JSON
ParseNeverThrows(text) == FALSE

\* JSON.parse: a SyntaxError for text that is no JSON, else the document
ParseThrows(text) == ~text.ok

Parse(text) == text.doc

exportAllConfigurations(sm, ss) ==
  LET configs == [k \in DOMAIN sm |-> Parse(exportConfig(ss[sm[k].sim]))]
  IN Stringify(JObj([configurations |-> JArr(configs),
                     exportedAt |-> JStr("now"),
                     totalServers |-> JNum(Len(configs)),
                     version |-> JStr("1.0")]))

\* config.id && config.name && config.endpoint
HasRequired(config) ==
  Truthy(Get(config, "id")) /\ Truthy(Get(config, "name")) /\ Truthy(Get(config, "endpoint"))

\* the test of the single-object branch: else if (configs.id)
SingleAccepted(configs) == Truthy(Get(configs, "id"))

MissingFields(n) == "Configuration " \o ToString(n) \o ": Missing required fields"

\* the text of `Configuration ${index + 1}: ${error}` for the TypeError that
\* reading a property of null raises
EntryThrew(n) == "Configuration " \o ToString(n) \o ": TypeError"

\* a loop that stops at the first entry it rejects
RECURSIVE importEachAborts(_, _, _)
importEachAborts(r, items, n) ==
  IF n > Len(items) THEN r
  ELSE LET config == items[n]
       IN IF GetThrows(config)
          THEN [r EXCEPT !.errors = Append(@, EntryThrew(n))]
          ELSE IF HasRequired(config)
          THEN importEachAborts([r EXCEPT !.w = addServer(@, Get(config, "id").v, config),
                                          !.success = @ + 1],
                                items, n + 1)
          ELSE [r EXCEPT !.errors = Append(@, MissingFields(n))]

\* the forEach of the array branch from entry n on; r = [w, success, errors]
RECURSIVE importEach(_, _, _)
importEach(r, items, n) ==
  IF n > Len(items) THEN r
  ELSE LET config == items[n]
           next ==
             IF GetThrows(config)
             THEN [r EXCEPT !.errors = Append(@, EntryThrew(n))]
             ELSE IF HasRequired(config)
             THEN [r EXCEPT !.w = addServer(@, Get(config, "id").v, config),
                            !.success = @ + 1]
             ELSE [r EXCEPT !.errors = Append(@, MissingFields(n))]
       IN importEach(next, items, n + 1)

\* the text of `Invalid JSON: ${error}` in the outer catch
InvalidJson(error) == "Invalid JSON: " \o error

\* the try block of importConfigurations: [w, success, errors, thrown], thrown
\* being the error that leaves the block ("none" when it returns)
tryImport(w, jsonData) ==
  IF ParseThrows(jsonData)
  THEN [w |-> w, success |-> 0, errors |-> <<>>, thrown |-> "SyntaxError"]
  ELSE LET configs == Parse(jsonData)
       IN IF configs.t = "arr"
          THEN importEach([w |-> w, success |-> 0, errors |-> <<>>, thrown |-> "none"],
                          configs.v, 1)
          ELSE IF GetThrows(configs)
          THEN [w |-> w, success |-> 0, errors |-> <<>>, thrown |-> "TypeError"]
          ELSE IF SingleAccepted(configs)
          THEN [w |-> addServer(w, Get(configs, "id").v, configs),
                success |-> 1, errors |-> <<>>, thrown |-> "none"]
          ELSE [w |-> w, success |-> 0, errors |-> <<"Invalid configuration format">>,
                thrown |-> "none"]

\* importConfigurations without its outer catch: the error reaches the caller
importConfigurationsNoCatch(w, jsonData) == tryImport(w, jsonData)

\* importConfigurations(jsonData): the try block, and the catch that turns
\* what it throws into the returned value
importConfigurations(w, jsonData) ==
  LET r == tryImport(w, jsonData)
  IN IF r.thrown # "none"
     THEN [w |-> r.w, success |-> 0, errors |-> <<InvalidJson(r.thrown)>>,
           thrown |-> "none"]
     ELSE r

Import(jsonData) ==
  /\ Spend
  /\ LET r == importConfigurations(World, jsonData)
     IN /\ SetWorld(r.w)
        /\ result' = [input |-> jsonData, success |-> r.success, errors |-> r.errors,
                       thrown |-> r.thrown]
  /\ last' = [op |-> "import", sim |-> 0, from |-> "undefined"]
  /\ UNCHANGED <<timers, nextHandle, agg, store>>

\* config objects an import payload is made of: with every required field,
\* with some missing or empty, and values that are no object
FullConfig(id) ==
  JObj([id |-> JStr(id), name |-> JStr("Server " \o id), endpoint |-> JStr("ws://" \o id)])

Entries ==
  { FullConfig("a"), FullConfig("b"),
    JObj([id |-> JStr("a")]),
    JObj([name |-> JStr("n"), endpoint |-> JStr("ws://n")]),
    JObj([id |-> JStr("a"), name |-> JStr(""), endpoint |-> JStr("ws://a")]),
    JObj([id |-> JStr("b"), name |-> JStr("Server b")]),
    JNull, JNum(7), JStr("text") }

\* the strings importConfigurations is called with: no JSON, one value, or
\* an array of up to two values
Payloads ==
  {NotJson}
    \cup { Stringify(e) : e \in Entries }
    \cup { Stringify(JArr(<<>>)) }
    \cup { Stringify(JArr(<<e>>)) : e \in Entries }
    \cup { Stringify(JArr(<<e, f>>)) : e \in Entries, f \in Entries }

ImportPayload == \E jsonData \in Payloads : Import(jsonData)

\* importConfigurations(exportAllConfigurations())
ImportExported == Import(exportAllConfigurations(simulators, sims))

ImportNext ==
  \/ ImportPayload
  \/ ImportExported
  \/ \E id \in {"a", "b"} : RemoveServer(id)
  \/ \E id \in {"a", "b"} : AddServer(id, FullConfig(id))

\* a manager holding 0, 1 or 2 simulators that addServer has just built
RECURSIVE addSamples(_, _)
addSamples(w, ids) ==
  IF ids = <<>> THEN w
  ELSE addSamples(addServer(w, Head(ids), FullConfig(Head(ids))), Tail(ids))

PoolInitWith(ids, steps) ==
  LET w == addSamples([sims |-> <<>>, simulators |-> <<>>, global |-> NoGlobal], ids)
  IN /\ sims = w.sims
     /\ simulators = w.simulators
     /\ global = w.global
     /\ timers = {}
     /\ nextHandle = 1
     /\ agg = NoAgg
     /\ result = NoResult
     /\ store = NoStore
     /\ last = [op |-> "new", sim |-> 0, from |-> "undefined"]
     /\ budget = steps

ImportInit == \E ids \in {<<>>, <<"a">>, <<"a", "b">>} : PoolInitWith(ids, MaxImportSteps)

SpecImport == ImportInit /\ [][ImportNext]_vars

\* the configuration of the sample server
SampleConfig(id) ==
  JObj([id |-> JStr(id), name |-> JStr("Test"), endpoint |-> JStr("ws://x")])

\* a simulator constructed on its own, with a callback
Init ==
  /\ sims = <<NewSimulator("s1", SampleConfig("s1"), "user")>>
  /\ simulators = <<>>
  /\ timers = {}
  /\ nextHandle = 1
  /\ agg = NoAgg
  /\ global = NoGlobal
  /\ result = NoResult
  /\ store = NoStore
  /\ last = [op |-> "new", sim |-> 1, from |-> "disconnected"]
  /\ budget = MaxSteps

Spec == Init /\ [][SimNext]_vars

(***************************************************************************)
(* A caller that keeps the snapshot getStatus() returned, and may write to *)
(* it, while the simulator goes on                                         *)
(***************************************************************************)
GetStatus(i) ==
  /\ Spend
  /\ sims' = [sims EXCEPT ![i].kept = <<getStatus(sims[i])>>]
  /\ last' = [op |-> "getStatus", sim |-> i, from |-> sims[i].status.status]
  /\ UNCHANGED <<simulators, timers, nextHandle, agg, global, result, store>>

\* snapshot.status = 'error': the copy has its own status field
writeStatus(s, snapshot) == [s EXCEPT !.kept = <<[snapshot EXCEPT !.status = "error"]>>]

\* snapshot.logs.length = 0: the array is the one the simulator's status
\* points to, or pointed to when the snapshot was taken
writeLogs(s, snapshot) ==
  LET emptied == [snapshot EXCEPT !.logs = <<>>]
  IN IF snapshot.logsRef = Len(s.retiredLogs) + 1
     THEN [s EXCEPT !.status.logs = <<>>, !.kept = <<emptied>>]
     ELSE [s EXCEPT !.retiredLogs[snapshot.logsRef] = <<>>, !.kept = <<emptied>>]

SnapshotWrite(i) ==
  /\ Spend
  /\ sims[i].kept # <<>>
  /\ \/ /\ sims' = [sims EXCEPT ![i] = writeStatus(sims[i], sims[i].kept[1])]
        /\ last' = [op |-> "write-status", sim |-> i, from |-> sims[i].status.status]
     \/ /\ sims' = [sims EXCEPT ![i] = writeLogs(sims[i], sims[i].kept[1])]
        /\ last' = [op |-> "write-logs", sim |-> i, from |-> sims[i].status.status]
  /\ UNCHANGED <<simulators, timers, nextHandle, agg, global, result, store>>

SnapshotNext ==
  \/ SimNext
  \/ \E i \in Inst : GetStatus(i)
  \/ \E i \in Inst : SnapshotWrite(i)

SpecSnapshot == Init /\ [][SnapshotNext]_vars

(***************************************************************************)
(* Runs that start from a simulator with a history: the state a scripted   *)
(* sequence of handlers leaves a new simulator in.                         *)
(***************************************************************************)
Handler(s, h) ==
  CASE h = "disconnect" -> disconnect(s)
    [] h = "connect" -> connectCall(s)
    [] h = "connect-ok" -> connectSucceeded(s, 5, 3, 1)
    [] h = "metrics-error" -> updateMetrics(s, 2, TRUE)
    [] h = "health-failed" -> performHealthCheck(s, TRUE)
    [] h = "pool-up" -> poolDrift(s, 1, 1)
    [] h = "pool-down" -> poolDrift(s, -1, -1)

RECURSIVE Replay(_, _)
Replay(s, script) ==
  IF script = <<>> THEN s ELSE Replay(Handler(s, Head(script)), Tail(script))

\* handler h run n times in a row, computed by halving n (the test on half
\* only makes TLC evaluate it before it goes on)
RECURSIVE Times(_, _, _)
Times(s, h, n) ==
  IF n = 0 THEN s
  ELSE IF n = 1 THEN Handler(s, h)
  ELSE LET half == Times(s, h, n \div 2)
       IN IF half.appended >= 0 THEN Times(half, h, n - (n \div 2)) ELSE half

\* connected, one failed request out of two, then four failed health checks:
\* errorRate is 9/10
HighRateScript ==
  <<"connect", "connect-ok", "metrics-error",
    "health-failed", "health-failed", "health-failed", "health-failed">>

WarmStates ==
  { \* disconnect() called MaxLogs - 1 times: one entry short of a full buffer
    [ sim |-> Times(NewSimulator("s1", SampleConfig("s1"), "user"), "disconnect", MaxLogs - 1),
      timers |-> {}, nextHandle |-> 1, op |-> "disconnect", from |-> "disconnected" ],
    [ sim |-> Replay(NewSimulator("s1", SampleConfig("s1"), "user"), HighRateScript),
      timers |-> StartedTimers(1, 1), nextHandle |-> 5, op |-> "health", from |-> "connected" ] }

WarmInit ==
  \E w \in WarmStates :
    /\ sims = <<w.sim>>
    /\ simulators = <<>>
    /\ timers = w.timers
    /\ nextHandle = w.nextHandle
    /\ agg = NoAgg
    /\ global = NoGlobal
    /\ result = NoResult
    /\ store = NoStore
    /\ last = [op |-> w.op, sim |-> 1, from |-> w.from]
    /\ budget = MaxWarmSteps

SpecWarm == WarmInit /\ [][SimNext]_vars

\* a connected simulator after five pool drifts upwards (active 10, idle 5)
\* and one after five drifts downwards (active 0, idle 0)
DriftedStates ==
  { Times(Replay(NewSimulator("s1", SampleConfig("s1"), "user"), <<"connect", "connect-ok">>),
          direction, MaxActive - 5)
      : direction \in {"pool-up", "pool-down"} }

DriftInit ==
  \E s \in DriftedStates :
    /\ sims = <<s>>
    /\ simulators = <<>>
    /\ timers = StartedTimers(1, 1)
    /\ nextHandle = 5
    /\ agg = NoAgg
    /\ global = NoGlobal
    /\ result = NoResult
    /\ store = NoStore
    /\ last = [op |-> "pool", sim |-> 1, from |-> "connected"]
    /\ budget = MaxWarmSteps

SpecDrift == DriftInit /\ [][SimNext]_vars

(***************************************************************************)
(* The manager with its simulators: every operation of both classes        *)
(***************************************************************************)
PoolNext ==
  \/ ConnectAll
  \/ \E i \in Inst : MemberResume(i)
  \/ DisconnectAll
  \/ Settle
  \/ \E id \in {"a", "b"} : AddServer(id, FullConfig(id))
  \/ \E id \in {"a", "b"} : RemoveServer(id)
  \/ SimNext

PoolInit == \E ids \in {<<>>, <<"a">>, <<"a", "b">>} : PoolInitWith(ids, MaxPoolSteps)

SpecPool == PoolInit /\ [][PoolNext]_vars

\* connectAll() with no other connect() or disconnect() issued: the only call
\* is connectAll(), the rest is timers and continuations.
\* A pending timeout fires and a settled join resumes: both are weakly fair.
ConnectAllNext ==
  \/ ConnectAll
  \/ \E i \in Inst : MemberResume(i)
  \/ Settle
  \/ TimerTick

SpecConnectAll ==
  /\ PoolInit
  /\ [][ConnectAllNext]_vars
  /\ WF_vars(\E i \in Inst : MemberResume(i))
  /\ WF_vars(Settle)

(***************************************************************************)
(* The application store (useAppStore) on top of the manager               *)
(***************************************************************************)
\* state.mcpServers.map(server => server.id === id ? {...server, ...updates} : server)
updateMCPServer(servers, id, status, lastConnected) ==
  [k \in DOMAIN servers |->
     IF servers[k].id = id
     THEN [servers[k] EXCEPT !.status = status, !.lastConnected = lastConnected]
     ELSE servers[k]]

\* connectMCPServer(id), up to `await simulator.connect()`
ConnectMCPServer(id) ==
  /\ Spend
  /\ LET i == MapGet(simulators, id)
     IN IF i # 0
        THEN /\ InFlight(i) < MaxInFlight
             /\ SimStep(i, connectCall(sims[i]), "connectMCPServer")
             /\ store' = [store EXCEPT !.awaiting[i] = @ + 1]
        ELSE /\ UNCHANGED <<sims, global, store>>
             /\ last' = [op |-> "connectMCPServer", sim |-> 0, from |-> "undefined"]
  /\ UNCHANGED <<simulators, timers, nextHandle, agg, result>>

\* connect() resumes after its delay and returns, then connectMCPServer(id)
\* resumes and writes the server's entry
ConnectMCPResume(i) ==
  /\ StoreAwaiting(i) > 0
  /\ ConnectContinue(i, sims[i])
  /\ store' = [store EXCEPT
                 !.awaiting[i] = @ - 1,
                 !.mcpServers = updateMCPServer(@, sims[i].serverId, "connected", "now")]
  /\ UNCHANGED <<simulators, agg, result, budget>>

\* disconnectMCPServer(id)
DisconnectMCPServer(id) ==
  /\ Spend
  /\ LET i == MapGet(simulators, id)
     IN IF i # 0
        THEN /\ SimStep(i, disconnect(sims[i]), "disconnectMCPServer")
             /\ timers' = { t \in timers : t.h \notin ClearedHandles(sims[i]) }
             /\ store' = [store EXCEPT !.mcpServers =
                            [k \in DOMAIN @ |->
                               IF @[k].id = id THEN [@[k] EXCEPT !.status = "disconnected"]
                               ELSE @[k]]]
        ELSE /\ UNCHANGED <<sims, global, timers, store>>
             /\ last' = [op |-> "disconnectMCPServer", sim |-> 0, from |-> "undefined"]
  /\ UNCHANGED <<simulators, nextHandle, agg, result>>

StoreNext ==
  \/ \E id \in {"a", "b"} : ConnectMCPServer(id)
  \/ \E i \in Inst : ConnectMCPResume(i)
  \/ \E id \in {"a", "b"} : DisconnectMCPServer(id)
  \/ TimerTick

\* the store as created: every server of its list is disconnected and has a
\* simulator in the manager; with the one sample server, or with a second
\* server added by addMCPServer
StoreInit ==
  \E ids \in {<<"a">>, <<"a", "b">>} :
    LET w == addSamples([sims |-> <<>>, simulators |-> <<>>, global |-> NoGlobal], ids)
    IN /\ sims = w.sims
       /\ simulators = w.simulators
       /\ global = w.global
       /\ timers = {}
       /\ nextHandle = 1
       /\ agg = NoAgg
       /\ result = NoResult
       /\ last = [op |-> "new", sim |-> 0, from |-> "undefined"]
       /\ budget = MaxPoolSteps
       /\ store = [mcpServers |-> [k \in DOMAIN ids |->
                                     [id |-> ids[k], status |-> "disconnected",
                                      lastConnected |-> "undefined"]],
                   awaiting |-> [i \in DOMAIN w.sims |-> 0]]

SpecStore == StoreInit /\ [][StoreNext]_vars

\* the timers of simulator i that are set and not cleared
OwnTimers(i) == { t \in timers : t.owner = i }

(***************************************************************************)
(* Claims                                                                  *)
(***************************************************************************)
PoolConsistent(pool) == pool.total = pool.active + pool.idle

\* C1: in every reachable state, the connectionPool of every simulator, as
\* getStatus() returns it and as the last snapshot handed to the subscriber
\* carried it, has total = active + idle.
C1_PoolTotalIsSum ==
  \A i \in Inst :
    /\ PoolConsistent(getStatus(sims[i]).connectionPool)
    /\ \A k \in DOMAIN sims[i].delivered :
         PoolConsistent(sims[i].delivered[k].connectionPool)

\* a pool drift has just changed a connected simulator's pool and notified
C1_Witness ==
  \E i \in Inst :
    /\ last.op = "pool" /\ last.sim = i
    /\ sims[i].status.status = "connected"
    /\ sims[i].status.connectionPool.active \notin {1, 5}
    /\ sims[i].delivered[1].connectionPool = sims[i].status.connectionPool

Min(a, b) == IF a < b THEN a ELSE b

\* C2: the logs of a simulator hold exactly the min(n, 100) most recently
\* appended entries, newest first, n being the number appended so far.
C2_LogsAreNewestHundred ==
  \A i \in Inst :
    LET logs == sims[i].status.logs
        n == sims[i].appended
    IN /\ Len(logs) = Min(n, MaxLogs)
       /\ \A k \in DOMAIN logs : logs[k].id = n - k + 1

\* more than 100 entries were appended, the last by a step of this run
C2_Witness ==
  \E i \in Inst :
    /\ sims[i].appended > MaxLogs + 1
    /\ Len(sims[i].status.logs) = MaxLogs
    /\ sims[i].status.logs[1].message # "Disconnecting"

\* C3: metrics.errorRate is within [0, 1] in every reachable state.
C3_ErrorRateInUnitInterval ==
  \A i \in Inst :
    LET e == sims[i].status.metrics.errorRate
    IN RatLeq(RatZero, e) /\ RatLeq(e, RatOne)

\* a failed health check has nudged an errorRate that metrics ticks computed
\* from real errors up to the clamp
C3_Witness ==
  \E i \in Inst :
    /\ last.op = "health" /\ last.sim = i
    /\ sims[i].status.metrics.totalErrors > 0
    /\ sims[i].status.metrics.errorRate = RatOne
    /\ Cardinality({ k \in DOMAIN sims[i].status.logs :
                       sims[i].status.logs[k].message = "Health check failed" }) >= 6

\* the entries of an import payload: the elements of an array, or the one value
PayloadEntries(doc) == IF doc.t = "arr" THEN doc.v ELSE <<doc>>

\* C4: importConfigurations rejects every entry (a single object or an
\* element of an array) that lacks any of id, name or endpoint: it is not
\* counted in success and yields "Configuration <n>: Missing required fields".
C4_IncompleteEntriesRejected ==
  (last.op = "import" /\ result.input.ok) =>
    LET entries == PayloadEntries(result.input.doc)
        objects == { n \in DOMAIN entries : entries[n].t = "obj" }
    IN /\ result.success = Cardinality({ n \in objects : HasRequired(entries[n]) })
       /\ \A n \in objects :
            ~HasRequired(entries[n]) => MissingFields(n) \in Range(result.errors)

\* C5: importConfigurations(exportAllConfigurations()) on a non-empty pool
\* returns success = totalServers and no errors.
C5_RoundTrip ==
  LET doc == result.input.doc
  IN ( /\ last.op = "import"
       /\ result.input.ok
       /\ doc.t = "obj"
       /\ "totalServers" \in DOMAIN doc.v
       /\ doc.v["totalServers"].v > 0 )
     => /\ result.success = doc.v["totalServers"].v
        /\ result.errors = <<>>

ConnectAllPending == agg.op = "connectAll" /\ agg.state = "pending"

ConnectAllDone == agg.op = "connectAll" /\ agg.state = "fulfilled"

\* C6: connectAll() eventually completes, and when it has completed (no other
\* connect() or disconnect() being issued) every simulator held at the call
\* is connected or in error, none is left connecting.
C6_ConnectAllCompletes ==
  /\ ConnectAllPending ~> ConnectAllDone
  /\ [](ConnectAllDone =>
          \A m \in Range(agg.members) :
            sims[m].status.status \in {"connected", "error"})

\* connectAll() on two simulators has completed, one connected, one in error
C6_Witness ==
  /\ ConnectAllDone
  /\ Len(agg.members) = 2
  /\ \E m \in Range(agg.members) : sims[m].status.status = "connected"
  /\ \E m \in Range(agg.members) : sims[m].status.status = "error"

\* C7: connectAll() and disconnectAll() return only once every member
\* operation has settled, whatever its outcome, and never reject: a member
\* that failed keeps no other from completing its own operation.
C7_JoinAllowsPartialFailure ==
  /\ agg.state # "rejected"
  /\ agg.state = "fulfilled" =>
       /\ DOMAIN agg.outcome = Range(agg.members)
       /\ \A m \in Range(agg.members) : agg.outcome[m] = "fulfilled"
  /\ \A m \in Waiting(agg) : ENABLED MemberResume(m)

\* connectAll() has returned after one member failed first and the other
\* then connected
C7_Witness ==
  /\ ConnectAllDone
  /\ Len(agg.members) = 2
  /\ sims[agg.members[1]].status.status = "error"
  /\ sims[agg.members[2]].status.status = "connected"
  /\ OwnTimers(agg.members[2]) # {}

\* C8: connectAll() starts every member's connect() before any connection
\* delay elapses: when the call returns its promise, every held simulator is
\* connecting and its continuation is pending.
C8_ConnectAllIsConcurrent ==
  [][ ConnectAll =>
        \A k \in DOMAIN simulators :
          /\ sims'[simulators[k].sim].status.status = "connecting"
          /\ simulators[k].sim \in Waiting(agg') ]_vars

\* connectAll() has just been called on two simulators and no delay has elapsed
C8_Witness ==
  /\ last.op = "connectAll"
  /\ Len(agg.members) = 2
  /\ \A m \in Range(agg.members) :
       sims[m].status.status = "connecting" /\ m \in Waiting(agg)

\* C9: disconnect(), called in any state, leaves the simulator disconnected
\* with connectionTime unset and an all-zero pool, and appends exactly one
\* info log.
C9_DisconnectResets ==
  [][ \A i \in Inst :
        Disconnect(i) =>
          /\ sims'[i].status.status = "disconnected"
          /\ sims'[i].status.connectionTime = "undefined"
          /\ sims'[i].status.connectionPool = ZeroPool
          /\ sims'[i].appended = sims[i].appended + 1
          /\ Len(sims'[i].status.logs) = Min(Len(sims[i].status.logs) + 1, MaxLogs)
          /\ sims'[i].status.logs[1].level = "info"
          /\ \A k \in 2 .. Len(sims'[i].status.logs) :
               sims'[i].status.logs[k] = sims[i].status.logs[k - 1] ]_vars

\* disconnect() has just returned on a simulator that was connected while a
\* second connect() was still pending
C9_Witness ==
  \E i \in Inst :
    /\ last.op = "disconnect" /\ last.sim = i /\ last.from = "connected"
    /\ sims[i].connectsInFlight > 0
    /\ sims[i].status.status = "disconnected"

\* C10: disconnect() stops all periodic activity: while a simulator is
\* disconnected, none of its health-check, metrics, activity-log or
\* pool-drift timers is active.
C10_DisconnectedHasNoTimer ==
  \A i \in Inst : sims[i].status.status = "disconnected" => OwnTimers(i) = {}

\* C11: disconnect() on a simulator that is already disconnected leaves
\* status, connectionTime, connectionPool and metrics as they were and
\* appends exactly one new log entry.
C11_DisconnectIdempotent ==
  [][ \A i \in Inst :
        (Disconnect(i) /\ sims[i].status.status = "disconnected") =>
          /\ sims'[i].status.status = sims[i].status.status
          /\ sims'[i].status.connectionTime = sims[i].status.connectionTime
          /\ sims'[i].status.connectionPool = sims[i].status.connectionPool
          /\ sims'[i].status.metrics = sims[i].status.metrics
          /\ sims'[i].appended = sims[i].appended + 1
          /\ Len(sims'[i].status.logs) = Min(Len(sims[i].status.logs) + 1, MaxLogs)
          /\ \A k \in 2 .. Len(sims'[i].status.logs) :
               sims'[i].status.logs[k] = sims[i].status.logs[k - 1] ]_vars

\* disconnect() has just returned for the second time in a row on a
\* simulator whose metrics had counted requests
C11_Witness ==
  \E i \in Inst :
    /\ last.op = "disconnect" /\ last.sim = i /\ last.from = "disconnected"
    /\ sims[i].status.metrics.totalRequests > 0
    /\ sims[i].status.metrics.errorRate # RatZero
    /\ sims[i].status.logs[1].message = "Disconnecting"
    /\ sims[i].status.logs[2].message = "Disconnecting"
    /\ sims[i].status.logs[3].message # "Disconnecting"

\* the fields of a status that a subscriber observes
Observed(st) ==
  [ status |-> st.status,
    connectionTime |-> st.connectionTime,
    connectionPool |-> st.connectionPool,
    metrics |-> st.metrics,
    logs |-> st.logs ]

\* C12: whenever an operation of a simulator (connect, disconnect,
\* testConnection or a timer callback) has finished, the snapshot its callback
\* received last, read through its references, agrees with getStatus() on
\* status, connectionTime, connectionPool, metrics and logs.
C12_LastSnapshotIsCurrent ==
  \A i \in Inst :
    sims[i].delivered # <<>> =>
      Observed(View(sims[i], sims[i].delivered[1])) = Observed(getStatus(sims[i]))

\* C13: a status snapshot returned by getStatus() is not changed by later
\* operations of the simulator (its holder reads the metrics, logs and
\* connectionPool it had when it was taken), and writing to the snapshot
\* does not change the simulator's own status.
C13_SnapshotIsolated ==
  /\ [](\A i \in Inst :
          sims[i].kept # <<>> => View(sims[i], sims[i].kept[1]) = sims[i].kept[1])
  /\ [][ \A i \in Inst : SnapshotWrite(i) => sims'[i].status = sims[i].status ]_vars

\* the ids of an array of statuses, and the keys of the manager's map
StatusIds(statuses) == { statuses[k].id : k \in DOMAIN statuses }

HeldIds(sm) == { sm[k].key : k \in DOMAIN sm }

\* C14: addServer(), removeServer() of a held id and an importConfigurations()
\* that added servers each call the manager's subscriber, and the array it
\* received last has exactly the ids now held.
C14_MembershipChangeNotifies ==
  [][ ( \/ last'.op = "addServer"
        \/ last'.op = "removeServer" /\ last'.sim # 0
        \/ last'.op = "import" /\ result'.success > 0 )
      => /\ global'.count > global.count
         /\ StatusIds(global'.statuses) = HeldIds(simulators') ]_vars

\* C15: removeServer(id) on a held id disconnects that simulator and removes
\* it: afterwards getServer(id) is undefined, getAllStatuses() has no entry
\* with that id, every other simulator is as it was, and the last array the
\* call delivered to the manager's subscriber holds no status with that id.
C15_RemoveServerRemoves ==
  [][ (last'.op = "removeServer" /\ last'.sim # 0) =>
        LET i == last'.sim
            id == sims[i].serverId
        IN /\ MapGet(simulators, id) = i
           /\ sims'[i].status.status = "disconnected"
           /\ sims'[i].appended = sims[i].appended + 1
           /\ MapGet(simulators', id) = 0
           /\ id \notin StatusIds(getAllStatuses(simulators', sims'))
           /\ \A j \in Inst \ {i} : sims'[j] = sims[j]
           /\ \A k \in DOMAIN simulators :
                simulators[k].key # id =>
                  MapGet(simulators', simulators[k].key) = simulators[k].sim
           /\ global'.count > global.count
           /\ id \notin StatusIds(global'.statuses)
           /\ global'.statuses = getAllStatuses(simulators', sims') ]_vars

\* removeServer() has just removed a connected simulator and another is held
C15_Witness ==
  /\ last.op = "removeServer" /\ last.sim # 0 /\ last.from = "connected"
  /\ sims[last.sim].status.status = "disconnected"
  /\ OwnTimers(last.sim) = {}
  /\ Len(simulators) = 1
  /\ sims[last.sim].serverId \notin StatusIds(global.statuses)
  /\ Len(global.statuses) = 1

\* C16: removeServer(id) on an id that is not held changes neither the map
\* nor any simulator, does not call the manager's subscriber and returns
\* normally.
C16_RemoveUnknownIsNoOp ==
  [][ (last'.op = "removeServer" /\ last'.sim = 0) =>
        /\ simulators' = simulators
        /\ sims' = sims
        /\ timers' = timers
        /\ global' = global
        /\ last'.from = "undefined" ]_vars

\* removeServer() has just returned for an id that is not held while the
\* manager holds a connected simulator under another id
C16_Witness ==
  /\ last.op = "removeServer" /\ last.sim = 0
  /\ Len(simulators) = 1
  /\ sims[simulators[1].sim].status.status = "connected"
  /\ global.count > 0

\* an array entry the loop accepts: id, name and endpoint are present and
\* not empty
ValidEntry(config) == ~GetThrows(config) /\ HasRequired(config)

\* C17: for an array payload a rejected entry does not abort the import:
\* every valid entry is added to the pool wherever it stands, every invalid
\* entry yields exactly one error qualified by its 1-based index, and
\* success + errors.length is the number of entries.
C17_ArrayImportContinues ==
  (last.op = "import" /\ result.input.ok /\ result.input.doc.t = "arr") =>
    LET entries == result.input.doc.v
        valid == { n \in DOMAIN entries : ValidEntry(entries[n]) }
        invalid == DOMAIN entries \ valid
    IN /\ result.success = Cardinality(valid)
       /\ \A n \in valid :
            LET id == Get(entries[n], "id").v
            IN /\ Held(simulators, id)
               /\ \E m \in valid :
                    /\ Get(entries[m], "id").v = id
                    /\ sims[MapGet(simulators, id)].serverConfig = entries[m]
       /\ \A n \in invalid :
            Cardinality({ k \in DOMAIN result.errors :
                            result.errors[k] \in {MissingFields(n), EntryThrew(n)} }) = 1
       /\ Len(result.errors) = Cardinality(invalid)
       /\ result.success + Len(result.errors) = Len(entries)

\* an array whose first entry is null and whose second entry is valid has
\* just been imported: one error for entry 1, and the second entry is held
C17_Witness ==
  /\ last.op = "import" /\ result.input.ok /\ result.input.doc.t = "arr"
  /\ Len(result.input.doc.v) = 2
  /\ result.input.doc.v[1] = JNull
  /\ ValidEntry(result.input.doc.v[2])
  /\ result.success = 1
  /\ result.errors = <<EntryThrew(1)>>
  /\ Held(simulators, Get(result.input.doc.v[2], "id").v)

\* C18: importConfigurations on a string that is not valid JSON returns
\* success 0 and exactly one error, which starts with "Invalid JSON: ", and
\* leaves the held simulators as they were.
C18_MalformedJsonRejected ==
  [][ (last'.op = "import" /\ ~result'.input.ok) =>
        /\ result'.success = 0
        /\ Len(result'.errors) = 1
        /\ result'.errors[1] = InvalidJson("SyntaxError")
        /\ simulators' = simulators
        /\ sims' = sims
        /\ global' = global ]_vars

\* text that is no JSON has just been imported into a pool that holds a
\* simulator
C18_Witness ==
  /\ last.op = "import" /\ ~result.input.ok
  /\ result.success = 0
  /\ Len(result.errors) = 1
  /\ Len(simulators) > 0

\* how many things an import payload asks to import
Requested(text) ==
  IF text.ok /\ text.doc.t = "arr" THEN Len(text.doc.v) ELSE 1

\* C19: importConfigurations never throws: for every input string, valid
\* JSON that is no config included (null, a number, a string, an array
\* holding null or values that are no object), it returns {success, errors}
\* and every failure is reported as text in errors.
C19_ImportNeverThrows ==
  last.op = "import" =>
    /\ result.thrown = "none"
    /\ result.success \in 0 .. Requested(result.input)
    /\ Len(result.errors) = Requested(result.input) - result.success

\* JSON null, where reading configs.id raises a TypeError, has just been
\* imported
C19_Witness ==
  /\ last.op = "import"
  /\ result.input = Stringify(JNull)
  /\ result.thrown = "none"
  /\ result.success = 0
  /\ result.errors = <<InvalidJson("TypeError")>>

\* C20: testConnection() changes neither status, connectionTime,
\* connectionPool nor metrics and starts no timer, in whatever state it is
\* called: it appends one info log when called and, after the delay, one
\* info log when it returns true or one error log when it returns false.
C20_TestConnectionOnlyLogs ==
  [][ (last'.op \in {"test", "test-ok", "test-failed"}) =>
        LET i == last'.sim
            old == sims[i]
            new == sims'[i]
        IN /\ new.status.status = old.status.status
           /\ new.status.connectionTime = old.status.connectionTime
           /\ new.status.connectionPool = old.status.connectionPool
           /\ new.status.metrics = old.status.metrics
           /\ timers' = timers
           /\ nextHandle' = nextHandle
           /\ new.healthCheckInterval = old.healthCheckInterval
           /\ new.metricsInterval = old.metricsInterval
           /\ new.simulationIntervals = old.simulationIntervals
           /\ new.appended = old.appended + 1
           /\ Len(new.status.logs) = Min(Len(old.status.logs) + 1, MaxLogs)
           /\ \A k \in 2 .. Len(new.status.logs) :
                new.status.logs[k] = old.status.logs[k - 1]
           /\ new.status.logs[1].level =
                (IF last'.op = "test-failed" THEN "error" ELSE "info")
           /\ new.testsInFlight =
                old.testsInFlight + (IF last'.op = "test" THEN 1 ELSE -1) ]_vars

\* testConnection() has just returned false on a connected simulator whose
\* timers are running
C20_Witness ==
  \E i \in Inst :
    /\ last.op = "test-failed" /\ last.sim = i /\ last.from = "connected"
    /\ sims[i].status.status = "connected"
    /\ sims[i].status.logs[1].level = "error"
    /\ sims[i].status.logs[2].message = "Testing connection..."
    /\ sims[i].testsInFlight = 0
    /\ OwnTimers(i) # {}

\* the handlers that are a connect() call, and those that are a disconnect()
ConnectCalls == {"connect", "connectAll"}

DisconnectCalls == {"disconnect", "disconnectAll", "removeServer"}

\* C21: the status field follows the four-state machine under every
\* interleaving of connect() and disconnect(): a simulator starts
\* disconnected; status becomes connected or error only in a step from
\* connecting, connecting only by a connect() call, disconnected only by a
\* disconnect() call; and error and disconnected are left only by a new
\* connect() call (or, for error, by a disconnect() call).
C21_StatusStateMachine ==
  /\ \A i \in Inst : sims[i].notified = 0 => sims[i].status.status = "disconnected"
  /\ [][ \A i \in Inst :
           LET from == sims[i].status.status
               to == sims'[i].status.status
           IN from # to =>
                /\ to \in {"connected", "error"} => from = "connecting"
                /\ to = "connecting" => last'.op \in ConnectCalls
                /\ to = "disconnected" => last'.op \in DisconnectCalls
                /\ from \in {"error", "disconnected"} =>
                     last'.op \in ConnectCalls \cup DisconnectCalls ]_vars

\* C22: a disconnect() issued while a connect() delay is pending does not
\* cancel the connect: the continuation still runs, takes the status from
\* disconnected to connected or error, and on the success branch fills the
\* pool again and starts the periodic timers.
C22_PendingConnectSurvivesDisconnect ==
  /\ [](\A i \in Inst : sims[i].connectsInFlight > 0 => ENABLED ConnectResume(i))
  /\ [][ \A i \in Inst :
           /\ (last'.op = "disconnect" /\ last'.sim = i) =>
                sims'[i].connectsInFlight = sims[i].connectsInFlight
           /\ ( /\ last'.op \in {"connect-ok", "connect-failed"} /\ last'.sim = i
                /\ sims[i].status.status = "disconnected" ) =>
                IF last'.op = "connect-failed"
                THEN sims'[i].status.status = "error" /\ timers' = timers
                ELSE /\ sims'[i].status.status = "connected"
                     /\ sims'[i].status.connectionTime = "now"
                     /\ sims'[i].status.connectionPool.active >= 1
                     /\ sims'[i].status.connectionPool.idle >= 1
                     /\ PoolConsistent(sims'[i].status.connectionPool)
                     /\ { t.kind : t \in timers' \ timers } =
                          {"health", "metrics", "log", "pool"}
                     /\ \A t \in timers' \ timers : t.owner = i ]_vars

\* the connect() that was pending when disconnect() was called has just
\* succeeded: the simulator is connected with timers running, and its newest
\* logs are those of the connection, on top of the disconnect's
C22_Witness ==
  \E i \in Inst :
    /\ last.op = "connect-ok" /\ last.sim = i /\ last.from = "disconnected"
    /\ sims[i].status.status = "connected"
    /\ sims[i].status.connectionPool.total >= 2
    /\ Cardinality(OwnTimers(i)) = 4
    /\ sims[i].status.logs[3].message = "Disconnecting"

\* C23: connect() is idempotent with respect to timers: under every sequence
\* of connect() and disconnect() calls a simulator has at most one active
\* health-check, one metrics, one activity-log and one pool-drift timer.
C23_AtMostOneTimerOfEachKind ==
  \A i \in Inst :
    \A kind \in {"health", "metrics", "log", "pool"} :
      Cardinality({ t \in OwnTimers(i) : t.kind = kind }) <= 1

\* C24: a connect() whose attempt fails sets status to error, appends one
\* error-level log and starts no timer, and nothing retries it: with no
\* connect() in flight and no further connect() or disconnect() call, the
\* status stays error and no periodic callback of the simulator fires.
C24_FailedConnectIsQuiet ==
  /\ [](\A i \in Inst :
          (sims[i].status.status = "error" /\ InFlight(i) = 0) => OwnTimers(i) = {})
  /\ [][ \A i \in Inst :
           /\ (last'.op = "connect-failed" /\ last'.sim = i) =>
                /\ sims'[i].status.status = "error"
                /\ sims'[i].appended = sims[i].appended + 1
                /\ sims'[i].status.logs[1].level = "error"
                /\ timers' = timers
                /\ nextHandle' = nextHandle
           /\ ( /\ sims[i].status.status = "error"
                /\ InFlight(i) = 0
                /\ last'.op \notin ConnectCalls \cup DisconnectCalls ) =>
                sims'[i].status.status = "error" ]_vars

\* C25: when a connect() attempt succeeds, at the moment it resolves the
\* status is connected, connectionTime is set, connectionPool.active is in
\* 1..5, idle in 1..3 and total their sum; from then on, while the simulator
\* is connected, the pool drift keeps active within 0..10 and idle within
\* 0..5.
C25_PoolWithinRange ==
  /\ [](\A i \in Inst :
          sims[i].status.status = "connected" =>
            /\ sims[i].status.connectionPool.active \in 0 .. MaxActive
            /\ sims[i].status.connectionPool.idle \in 0 .. MaxIdle
            /\ PoolConsistent(sims[i].status.connectionPool))
  /\ [][ \A i \in Inst :
           (last'.op = "connect-ok" /\ last'.sim = i) =>
             /\ sims'[i].status.status = "connected"
             /\ sims'[i].status.connectionTime = "now"
             /\ sims'[i].status.connectionPool.active \in 1 .. 5
             /\ sims'[i].status.connectionPool.idle \in 1 .. 3
             /\ PoolConsistent(sims'[i].status.connectionPool) ]_vars

\* a pool drift has just run against the upper clamp of active: active is
\* still 10 while idle went down from 5
C25_Witness ==
  \E i \in Inst :
    /\ last.op = "pool" /\ last.sim = i
    /\ sims[i].status.status = "connected"
    /\ sims[i].status.connectionPool = [active |-> MaxActive, idle |-> MaxIdle - 1,
                                        total |-> MaxActive + MaxIdle - 1]
    /\ sims[i].delivered[1].connectionPool = sims[i].status.connectionPool

\* the handlers that may write the status field
StatusWriters == ConnectCalls \cup DisconnectCalls \cup {"connect-ok", "connect-failed"}

\* C26: a failed health check, a failed request in the metrics tick, an
\* activity log, a pool drift and testConnection() never change the status
\* field: it changes only in a connect() call, in the completion of a
\* connect() and in a disconnect() call.
C26_OnlyLifecycleChangesStatus ==
  [][ \A i \in Inst :
        /\ sims'[i].status.status # sims[i].status.status => last'.op \in StatusWriters
        /\ last'.op \in {"health", "metrics", "log", "pool", "test", "test-ok", "test-failed"}
             => sims'[i].status.status = sims[i].status.status ]_vars

\* a health check has just failed on a connected simulator that had counted
\* a failed request: errorRate went up and the status is still connected
C26_Witness ==
  \E i \in Inst :
    /\ last.op = "health" /\ last.sim = i /\ last.from = "connected"
    /\ sims[i].status.status = "connected"
    /\ sims[i].status.logs[1].level = "warn"
    /\ sims[i].status.metrics.totalErrors > 0
    /\ \E k \in DOMAIN sims[i].status.logs :
         sims[i].status.logs[k].message = "Connection test failed: Unable to reach endpoint"

\* C27: errorRate is a derived ratio: in every reachable state
\* metrics.errorRate is totalErrors / totalRequests, or 0 when totalRequests
\* is 0, and totalRequests and totalErrors never decrease.
C27_ErrorRateIsDerived ==
  /\ [](\A i \in Inst :
          sims[i].status.metrics.errorRate = ErrorRatio(sims[i].status.metrics))
  /\ [][ \A i \in Inst :
           /\ sims'[i].status.metrics.totalRequests >= sims[i].status.metrics.totalRequests
           /\ sims'[i].status.metrics.totalErrors >= sims[i].status.metrics.totalErrors ]_vars

\* C28: no orphan simulator: a simulator the manager built that has an
\* active timer or a connect() in flight, and so can still call the manager's
\* subscriber, is the one stored in the map under its id; also after
\* addServer() with an id already held and after removeServer() during a
\* pending connect().
C28_NoOrphanSimulator ==
  \A i \in Inst :
    (sims[i].onStatusUpdate = "manager" /\ (OwnTimers(i) # {} \/ InFlight(i) > 0))
      => MapGet(simulators, sims[i].serverId) = i

\* C29: the success count importConfigurations returns is the number of
\* simulators the call added: after an import into an empty pool
\* getAllStatuses() has exactly success entries, also when two entries of
\* the payload have the same id.
C29_SuccessCountsAdded ==
  [][ (last'.op = "import" /\ simulators = <<>>) =>
        Len(getAllStatuses(simulators', sims')) = result'.success ]_vars

\* the status the store's mcpServers list records for a server id
StoreStatus(id) ==
  LET k == CHOOSE k \in DOMAIN store.mcpServers : store.mcpServers[k].id = id
  IN store.mcpServers[k].status

\* C30: the store stays consistent with the simulator: when the store's
\* connectMCPServer(id) has resolved, the status recorded for that server in
\* mcpServers is the simulator's own status (connected only if the attempt
\* succeeded).
C30_StoreMatchesSimulator ==
  [][ \A i \in Inst :
        StoreAwaiting(i)' < StoreAwaiting(i) =>
          StoreStatus(sims[i].serverId)' = sims'[i].status.status ]_vars

====
